---- MODULE Spec2Model ----
(***************************************************************************)
(* The JupiterOne Query node of n8n-nodes-jupiterone, paginated variant:   *)
(* JupiterOneQuery.execute.  For every input item it normalizes the query  *)
(* text and the limit, then repeats submit (POST /graphql) -> poll (GET    *)
(* deferred URL) cycles, following the cursor of every completed page,     *)
(* until the cursor ends, a page is empty or the limit is reached.         *)
(*                                                                         *)
(* Text is a sequence of tokens: the word LIMIT in either case, one        *)
(* whitespace character, one digit, or any other word.  Numbers of type    *)
(* `number` are kept in halves (v2 = 2 * value) so that fractional limits  *)
(* exist.  JS undefined / null of string fields are the tokens Undefined   *)
(* and Null.  An action is one run of execute between two awaits.          *)
(*                                                                         *)
(* The single-page variant of the node (NextSingle) and the webhook node   *)
(* JupiterOneWebhook.webhook (NextWebhook) follow in sections of their     *)
(* own.  SpecDeep runs the paginated node against cursor chains longer     *)
(* than MaxPages, SpecPolling against a server that stays IN_PROGRESS      *)
(* longer than a poll loop lasts.                                          *)
(***************************************************************************)
EXTENDS Integers, Sequences, FiniteSets, TLC

\* ------------------------------------------------------------------ bounds
MaxPages == 2          \* pages in the server's cursor chain
MaxPageRows == 2       \* rows on one page
MaxSmallLimit == 3     \* the small in-range limits 1..MaxSmallLimit
MaxInProgress == 2     \* IN_PROGRESS answers the server gives in one run
SlowRequest == 299000  \* duration in ms of a slow poll request
MaxOtherTasks == 1     \* steps of other tasks on the host's thread
MaxEntities == 2       \* entries of the data array of a webhook payload

\* -------------------------------------------------------- program constants
MAX_LIMIT == 10000
QUERY_RESULTS_TIMEOUT == 300000
pollInterval == 1000

JobStatus == [IN_PROGRESS |-> "IN_PROGRESS", COMPLETED |-> "COMPLETED", FAILED |-> "FAILED"]

Undefined == "undefined"
Null == "null"

\* !s for a string-typed (or absent) value
Falsy(s) == s \in {Undefined, Null, ""}

\* ------------------------------------------------------------------ numbers
Num(n) == [t |-> "number", v2 |-> 2 * n]
Halves(h) == [t |-> "number", v2 |-> h]
NaN == [t |-> "NaN", v2 |-> 0]
UndefinedLimit == [t |-> "undefined", v2 |-> 0]
NullLimit == [t |-> "null", v2 |-> 0]

\* !limit : undefined, null, NaN and 0 are falsy
NotLimit(l) == l.t # "number" \/ l.v2 = 0

\* isNaN(limit) : ToNumber(undefined) is NaN, ToNumber(null) is 0
isNaN(l) == l.t \in {"NaN", "undefined"}

\* if (!limit || isNaN(limit)) limit = MAX_LIMIT
EffectiveLimit(l) == IF NotLimit(l) \/ isNaN(l) THEN Num(MAX_LIMIT) ELSE l

\* mutant: the range check forgotten
ExceedsMax_Never(l) == FALSE

\* limit > MAX_LIMIT
ExceedsMax(l) == l.v2 > 2 * MAX_LIMIT

\* results.length < limit
LengthBelow(rows, l) == 2 * Len(rows) < l.v2

\* ToIntegerOrInfinity: truncation toward zero
Trunc(l) == IF l.v2 >= 0 THEN l.v2 \div 2 ELSE -((-l.v2) \div 2)

Min(a, b) == IF a < b THEN a ELSE b
Max(a, b) == IF a > b THEN a ELSE b

\* mutant: the accumulated rows emitted without the trim
slice_Untrimmed(rows, l) == rows

\* results.slice(0, limit)
slice(rows, l) ==
    LET e == Trunc(l)
        to == IF e < 0 THEN Max(Len(rows) + e, 0) ELSE Min(e, Len(rows))
    IN  SubSeq(rows, 1, to)

\* --------------------------------------------------------------------- text
LimitWords == {"LIMIT", "limit"}
Whitespace == {" "}
Digits == {"0", "1", "2", "3", "4", "5", "6", "7", "8", "9"}

\* last index of the longest run of class C that starts at p (p-1: no run)
RunEnd(q, p, C) ==
    CHOOSE e \in (p - 1)..Len(q) :
        /\ \A k \in p..e : q[k] \in C
        /\ (e = Len(q) \/ q[e + 1] \notin C)

\* /LIMIT\s+\d+/i matches at position p
MatchesAt(q, p) ==
    /\ q[p] \in LimitWords
    /\ LET w == RunEnd(q, p + 1, Whitespace)
       IN  w >= p + 1 /\ RunEnd(q, w + 1, Digits) >= w + 1

MatchEnd(q, p) == RunEnd(q, RunEnd(q, p + 1, Whitespace) + 1, Digits)

\* the regular expression has a match somewhere in q
HasLimitClause(q) == \E p \in 1..Len(q) : MatchesAt(q, p)

\* q.replace(/LIMIT\s+\d+/i, rep): no g flag, the leftmost match only
replace(q, rep) ==
    IF ~HasLimitClause(q) THEN q
    ELSE LET p == CHOOSE m \in 1..Len(q) :
                      MatchesAt(q, m) /\ \A k \in 1..(m - 1) : ~MatchesAt(q, k)
         IN  SubSeq(q, 1, p - 1) \o rep \o SubSeq(q, MatchEnd(q, p) + 1, Len(q))

trim(q) ==
    IF \A k \in 1..Len(q) : q[k] \in Whitespace THEN <<>>
    ELSE LET a == CHOOSE m \in 1..Len(q) :
                      q[m] \notin Whitespace /\ \A k \in 1..(m - 1) : q[k] \in Whitespace
             b == CHOOSE m \in 1..Len(q) :
                      q[m] \notin Whitespace /\ \A k \in (m + 1)..Len(q) : q[k] \in Whitespace
         IN  SubSeq(q, a, b)

\* baseQuery.replace(/LIMIT\s+\d+/i, '').trim()
StripLimit(q) == trim(replace(q, <<>>))

\* ------------------------------------------------------------------- inputs
PlainQuery == <<"FIND", " ", "x">>
LimitedQuery == <<" ", "FIND", " ", "x", " ", "limit", " ", " ", "5", "5", " ">>

Queries ==
    { PlainQuery,
      LimitedQuery,
      <<"FIND", " ", "x", " ", "LIMIT", " ", "5", " ", "LIMIT", " ", "5">> }

LimitValues ==
    {UndefinedLimit, NaN, Num(-1), Num(0), Halves(1), Halves(3), Num(MAX_LIMIT), Num(MAX_LIMIT + 1)}
        \cup {Num(n) : n \in 1..MaxSmallLimit}

\* the parameters of an item whose query text matters: every query with no
\* limit and with the smallest one
Params == [query : Queries, limit : {UndefinedLimit, Num(1)}]

ValidCredentials == [accountId |-> "acct", accessToken |-> "token"]

CredentialValues ==
    { ValidCredentials,
      [accountId |-> "", accessToken |-> "token"],
      [accountId |-> "acct", accessToken |-> Undefined] }

\* ------------------------------------------------------------------- server
\* The server holds the rows of a query as a chain of pages: chain[k] is the
\* number of rows of page k, the rows are numbered 1, 2, ... along the chain,
\* page k < Len(chain) carries the cursor of page k + 1, the last page none.
Chains == UNION {[1..n -> 0..MaxPageRows] : n \in 1..MaxPages}

CursorName == <<"c1", "c2", "c3", "c4", "c5", "c6">>
UrlName == <<"url1", "url2", "url3", "url4", "url5", "url6">>

RECURSIVE RowsBefore(_, _)
RowsBefore(ch, k) == IF k <= 1 THEN 0 ELSE RowsBefore(ch, k - 1) + ch[k - 1]

PageRows(ch, k) == [j \in 1..ch[k] |-> RowsBefore(ch, k) + j]

TotalRows(ch) == RowsBefore(ch, Len(ch) + 1)

\* the page a submission with this cursor asks for
PageIndex(c) == IF c = Null THEN 1 ELSE CHOOSE k \in 1..Len(CursorName) : CursorName[k] = c

\* the cursor a response with page k carries: the last page has none, which
\* the server writes as an empty string or leaves out
NextCursor(ch, k, none) == IF k < Len(ch) THEN CursorName[k + 1] ELSE none

\* bodies of submission responses for a job on page k
SubmitResponses(k) ==
    [kind : {"post"}, errors : {"absent"}, url : {UrlName[k], "", Undefined}]
        \cup [kind : {"post"}, errors : {"empty", "nonempty"}, url : {UrlName[k], Undefined}]

PageOfUrl(u) == CHOOSE k \in 1..Len(UrlName) : UrlName[k] = u

NoData == [hasData |-> FALSE, data |-> <<>>, cursor |-> Undefined]

\* the data part of a response that carries page k; the last page of a chain
\* of more than MaxPages pages may also carry the cursor of the first page
\* again (a server whose cursors go round in a circle)
PageData(ch, k) ==
    {[hasData |-> TRUE, data |-> PageRows(ch, k), cursor |-> NextCursor(ch, k, "")]}
        \cup (IF ch[k] = 0
              THEN {[hasData |-> FALSE, data |-> <<>>, cursor |-> NextCursor(ch, k, Undefined)]}
              ELSE {})
        \cup (IF k = Len(ch) /\ Len(ch) > MaxPages
              THEN {[hasData |-> TRUE, data |-> PageRows(ch, k), cursor |-> CursorName[1]]}
              ELSE {})

\* bodies of poll responses for the job on page k
PollResponses(ch, k, inProgressSoFar, most) ==
    LET body(st, d, er) ==
            [kind |-> "get", status |-> st, hasData |-> d.hasData, data |-> d.data,
             cursor |-> d.cursor, error |-> er]
    IN  (IF inProgressSoFar < most
         THEN {body(JobStatus.IN_PROGRESS, NoData, Undefined)} ELSE {})
        \* a snapshot taken while the job runs: the first answer may carry one
        \cup (IF inProgressSoFar = 0
              THEN {body(JobStatus.IN_PROGRESS, d, Undefined) :
                       d \in {e \in PageData(ch, k) : e.hasData /\ Len(e.data) > 0}}
              ELSE {})
        \cup {body(JobStatus.COMPLETED, d, Undefined) : d \in PageData(ch, k)}
        \cup {body(JobStatus.FAILED, NoData, "query failed")}
        \cup {body("QUEUED", d, Undefined) : d \in {e \in PageData(ch, k) : e.hasData}}
        \cup {body(Undefined, NoData, Undefined)}

Durations == {0, SlowRequest}

\* -------------------------------------------------------------------- state
VARIABLES
    params,          \* node parameters query and limit of every input item
    credentials,     \* what getCredentials('jupiteroneApi') returns
    continueOnFail,  \* this.continueOnFail()
    chain,           \* the server's pages
    patience,        \* server: IN_PROGRESS answers it gives at most in one run
    inProgress,      \* server: IN_PROGRESS answers given so far
    log,             \* every request sent, with the response it got
    i,               \* index of the item in progress (0-based)
    returnData,
    pc,              \* "loop", "awaitPost", "delay", "awaitGet", "returned", "thrown"
    thrown,          \* the error execute rejected with
    baseQuery, limit, results, cursor, page,
    headers, deferredUrl, status, statusFile,
    elapsed,         \* Date.now() - startTime
    now,             \* Date.now(), in ms since execute was called
    logger,          \* the entries written with this.logger
    otherTasks,      \* steps other tasks have run on the host's thread
    hookCall,        \* webhook node: its parameters and the request it is called for
    hookResult       \* webhook node: what webhook() returned

inputs == <<params, credentials, continueOnFail, chain, patience>>
locals == <<baseQuery, limit, results, cursor, page, headers, deferredUrl, status, statusFile, elapsed>>
hook == <<hookCall, hookResult>>
vars == <<inputs, inProgress, log, i, returnData, pc, thrown, locals, now, logger, otherTasks, hook>>

NoError == [message |-> [text |-> "none"]]
NoHeaders == [Authorization |-> <<>>, Account |-> Undefined]
NoFile == [kind |-> "none"]
Pending == [kind |-> "pending"]

\* the webhook node before any request has come in
NoCall == [authentication |-> "none"]
NoResult == [webhookResponse |-> [statusCode |-> 0]]
HookIdle == hookCall = NoCall /\ hookResult = NoResult
\* the outcome of a request httpRequest rejected, with the error it gave
Rejected(err) == [kind |-> "rejected", error |-> err]

\* the block-scoped variables of one loop iteration, before it assigns them
LocalsInit ==
    /\ baseQuery = <<>> /\ limit = UndefinedLimit /\ results = <<>> /\ cursor = Null
    /\ page = 0 /\ headers = NoHeaders /\ deferredUrl = Undefined
    /\ status = Undefined /\ statusFile = NoFile /\ elapsed = 0

LocalsGone ==
    /\ baseQuery' = <<>> /\ limit' = UndefinedLimit /\ results' = <<>> /\ cursor' = Null
    /\ page' = 0 /\ headers' = NoHeaders /\ deferredUrl' = Undefined
    /\ status' = Undefined /\ statusFile' = NoFile /\ elapsed' = 0

\* what execute is called with and what the server holds: one item; the
\* plain query with every limit against every chain, and every query with
\* every credentials object against a chain of two pages
Inputs ==
    {[params |-> <<[query |-> PlainQuery, limit |-> l]>>, credentials |-> ValidCredentials,
      chain |-> ch] : l \in LimitValues, ch \in Chains}
        \cup {[params |-> <<p>>, credentials |-> cr, chain |-> <<1, 1>>] :
                 p \in Params, cr \in CredentialValues}

Init ==
    /\ \E in \in Inputs :
        params = in.params /\ credentials = in.credentials /\ chain = in.chain
    /\ continueOnFail \in BOOLEAN
    /\ patience = MaxInProgress
    /\ inProgress = 0
    /\ log = <<>>
    /\ i = 0
    /\ returnData = <<>>
    /\ pc = "loop"
    /\ thrown = NoError
    /\ now = 0
    /\ logger = {}
    /\ otherTasks = 0
    /\ HookIdle
    /\ LocalsInit

\* ------------------------------------------------------------------- errors
LimitError(l) ==
    [message |-> [text |-> "Limit value exceeds maximum allowed value", value |-> l, bound |-> MAX_LIMIT],
     description |-> [text |-> "maximum limit of results per query", bound |-> MAX_LIMIT]]

GraphQLError(q, errors) ==
    [message |-> [text |-> "JupiterOne returned error(s) for query", query |-> q],
     description |-> errors]

NoUrlError(res) ==
    [message |-> [text |-> "No deferred result URL returned from JupiterOne."],
     description |-> res]

TimeoutError ==
    [message |-> [text |-> "Exceeded request timeout", seconds |-> QUERY_RESULTS_TIMEOUT \div 1000]]

FailedError(error) ==
    [message |-> [text |-> "JupiterOne returned error(s) for query", query |-> error]]

\* what httpRequest rejects with: a network error, or the error of a non-2xx
\* status with the status code and the body of the response
TransportErrors ==
    { [message |-> [text |-> "connect ECONNREFUSED"]],
      [message |-> [text |-> "Request failed with status code 500"],
       httpCode |-> 500, body |-> "raw body"] }

\* (this.getNodeParameter('limit', i) as number) || null
LimitOrNull(l) == IF NotLimit(l) THEN NullLimit ELSE l

\* i++ ; i < items.length, else return [returnData]
AfterItem == IF i + 1 < Len(params) THEN "loop" ELSE "returned"

\* An entry of the logger: its text and the values of the credentials (or
\* the placeholders standing for them) that it shows.
LogEntry(text, shown) == [text |-> text, shown |-> shown]

\* what is logged on the way from the throw to the end of the catch block:
\* the errors of a submission at the throw, the error in the catch block
\* (none of the errors built here holds a value of the credentials)
ErrorEntries(err) ==
    (IF "description" \in DOMAIN err /\ err.message.text = "JupiterOne returned error(s) for query"
     THEN {LogEntry("GraphQL errors", {})} ELSE {})
        \cup {LogEntry("Error in JupiterOne Query Node", {}), LogEntry("Error message", {}),
              LogEntry("Error stack", {})}

\* mutant: the catch block pushes the failure record in either mode
Catch_AlwaysRecords(err) ==
    /\ logger' = logger \cup ErrorEntries(err)
    /\ returnData' = Append(returnData,
           [json |-> [error |-> err.message, limit |-> LimitOrNull(params[i + 1].limit)],
            pairedItem |-> [item |-> i]])
    /\ i' = i + 1
    /\ pc' = AfterItem
    /\ thrown' = thrown
    /\ LocalsGone

\* the catch block of the item loop
Catch(err) ==
    /\ logger' = logger \cup ErrorEntries(err)
    /\ IF continueOnFail
       THEN /\ returnData' = Append(returnData,
                    [json |-> [error |-> err.message, limit |-> LimitOrNull(params[i + 1].limit)],
                     pairedItem |-> [item |-> i]])
            /\ i' = i + 1
            /\ pc' = AfterItem
            /\ thrown' = thrown
       ELSE /\ pc' = "thrown"
            /\ thrown' = err
            /\ UNCHANGED <<returnData, i>>
    /\ LocalsGone

\* ----------------------------------------------------------------- requests
Headers(cr) == [Authorization |-> <<"Bearer", cr.accessToken>>, Account |-> cr.accountId]

\* mutant: every submission is sent without a cursor
PostRequest_NullCursor(q, c, h) ==
    [item |-> i, method |-> "POST", url |-> "graphql", query |-> q, deferredResponse |-> "FORCE",
     cursor |-> Null, headers |-> h, res |-> Pending, sent |-> now', answered |-> now']

PostRequest(q, c, h) ==
    [item |-> i, method |-> "POST", url |-> "graphql", query |-> q, deferredResponse |-> "FORCE",
     cursor |-> c, headers |-> h, res |-> Pending, sent |-> now', answered |-> now']

\* mutant: the poll is sent without the headers of the submission
GetRequest_NoAuth(u, h) ==
    [item |-> i, method |-> "GET", url |-> u, query |-> <<>>, deferredResponse |-> Undefined,
     cursor |-> Null, headers |-> NoHeaders, res |-> Pending, sent |-> now', answered |-> now']

GetRequest(u, h) ==
    [item |-> i, method |-> "GET", url |-> u, query |-> <<>>, deferredResponse |-> Undefined,
     cursor |-> Null, headers |-> h, res |-> Pending, sent |-> now', answered |-> now']

\* the log with the response of the request in flight filled in, and the
\* time it arrived
AnsweredAt(res, t) == [log EXCEPT ![Len(log)].res = res, ![Len(log)].answered = t]

\* a response that takes no time to arrive
Answered(res) == AnsweredAt(res, now)

\* ------------------------------------------------------ execute, item start
\* Time passes while a poll that is answered IN_PROGRESS is in flight and in
\* the delay before every poll; everything else takes no time.

\* lines 95-113: credentials, parameters, limit normalization, LIMIT removal;
\* the limit exceeds MAX_LIMIT: throw
ItemLimitTooLarge ==
    /\ pc = "loop" /\ i < Len(params)
    /\ ExceedsMax(EffectiveLimit(params[i + 1].limit))
    /\ Catch(LimitError(EffectiveLimit(params[i + 1].limit)))
    /\ UNCHANGED <<inputs, hook, otherTasks, inProgress, log, now>>

\* while (results.length < limit) is false at once: the try block ends with
\* nothing pushed and the for loop goes on (or execute returns)
ItemSkipped ==
    /\ pc = "loop" /\ i < Len(params)
    /\ ~ExceedsMax(EffectiveLimit(params[i + 1].limit))
    /\ ~LengthBelow(<<>>, EffectiveLimit(params[i + 1].limit))
    /\ i' = i + 1
    /\ pc' = AfterItem
    /\ LocalsGone
    /\ UNCHANGED <<inputs, hook, logger, otherTasks, inProgress, log, returnData, thrown, now>>

\* the cursor of the last page the execution received, if any
StaleCursor ==
    LET pages == {n \in 1..Len(log) : log[n].method = "GET" /\ log[n].res.kind = "get"}
    IN  IF pages = {} THEN Null
        ELSE LET last == CHOOSE n \in pages : \A m \in pages : m <= n
             IN  IF Falsy(log[last].res.cursor) THEN Null ELSE log[last].res.cursor

\* mutant: the cursor is declared outside the item loop and not reset
ItemSubmit_SharedCursor ==
    /\ pc = "loop" /\ i < Len(params)
    /\ ~ExceedsMax(EffectiveLimit(params[i + 1].limit))
    /\ LengthBelow(<<>>, EffectiveLimit(params[i + 1].limit))
    /\ limit' = EffectiveLimit(params[i + 1].limit)
    /\ baseQuery' = StripLimit(params[i + 1].query)
    /\ results' = <<>>
    /\ cursor' = StaleCursor
    /\ page' = 1
    /\ headers' = Headers(credentials)
    /\ now' = now
    /\ log' = Append(log, PostRequest(baseQuery', cursor', headers'))
    /\ pc' = "awaitPost"
    /\ UNCHANGED <<inputs, hook, logger, otherTasks, inProgress, i, returnData, thrown, deferredUrl,
                   status, statusFile, elapsed>>

\* the loop is entered: page 1 is submitted with a null cursor
ItemSubmit ==
    /\ pc = "loop" /\ i < Len(params)
    /\ ~ExceedsMax(EffectiveLimit(params[i + 1].limit))
    /\ LengthBelow(<<>>, EffectiveLimit(params[i + 1].limit))
    /\ limit' = EffectiveLimit(params[i + 1].limit)
    /\ baseQuery' = StripLimit(params[i + 1].query)
    /\ results' = <<>>
    /\ cursor' = Null
    /\ page' = 1
    /\ headers' = Headers(credentials)
    /\ now' = now
    /\ log' = Append(log, PostRequest(baseQuery', Null, headers'))
    /\ pc' = "awaitPost"
    /\ UNCHANGED <<inputs, hook, logger, otherTasks, inProgress, i, returnData, thrown, deferredUrl, status, statusFile, elapsed>>

\* --------------------------------------------------- the submission response
\* mutant: errors looked at only when no deferred URL came back
HasErrors_OnlyWithoutUrl(res) == res.errors # "absent" /\ Falsy(res.url)

\* if (graphqlRes.errors): any errors value but an absent one is truthy
HasErrors(res) == res.errors # "absent"

SubmitErrors ==
    /\ pc = "awaitPost"
    /\ \E res \in SubmitResponses(PageIndex(cursor)) :
        /\ HasErrors(res)
        /\ log' = Answered(res)
        /\ Catch(GraphQLError(baseQuery, res.errors))
    /\ UNCHANGED <<inputs, hook, otherTasks, inProgress, now>>

\* mutant: deferredUrl === undefined instead of !deferredUrl
NoDeferredUrl_UndefinedOnly(res) == res.url = Undefined

\* const deferredUrl = graphqlRes?.data?.queryV1?.url; if (!deferredUrl)
NoDeferredUrl(res) == Falsy(res.url)

SubmitNoUrl ==
    /\ pc = "awaitPost"
    /\ \E res \in SubmitResponses(PageIndex(cursor)) :
        /\ ~HasErrors(res)
        /\ NoDeferredUrl(res)
        /\ log' = Answered(res)
        /\ Catch(NoUrlError(res))
    /\ UNCHANGED <<inputs, hook, otherTasks, inProgress, now>>

\* httpRequest rejects
SubmitRejected ==
    /\ pc = "awaitPost"
    /\ \E err \in TransportErrors :
        /\ log' = Answered(Rejected(err))
        /\ Catch(err)
    /\ UNCHANGED <<inputs, hook, otherTasks, inProgress, now>>

\* mutant: the budget is never checked
TimedOut_Never(e) == FALSE

\* Date.now() - startTime > QUERY_RESULTS_TIMEOUT
TimedOut(e) == e > QUERY_RESULTS_TIMEOUT

\* a deferred URL came back: startTime is taken, the poll loop is entered and
\* the timeout check of its first iteration passes
SubmitAccepted ==
    /\ pc = "awaitPost"
    /\ \E res \in SubmitResponses(PageIndex(cursor)) :
        /\ ~HasErrors(res)
        /\ ~NoDeferredUrl(res)
        /\ deferredUrl' = res.url
        /\ log' = Answered(res)
    /\ status' = JobStatus.IN_PROGRESS
    /\ statusFile' = NoFile
    /\ elapsed' = 0
    /\ pc' = "delay"
    /\ UNCHANGED <<inputs, hook, logger, otherTasks, inProgress, i, returnData, thrown, baseQuery, limit, results, cursor,
                   page, headers, now>>

\* mutant: the poll is sent at once, without the wait
PollDelay_NoWait ==
    /\ pc = "delay"
    /\ now' = now
    /\ elapsed' = elapsed
    /\ log' = Append(log, GetRequest(deferredUrl, headers))
    /\ pc' = "awaitGet"
    /\ UNCHANGED <<inputs, hook, logger, otherTasks, inProgress, i, returnData, thrown, baseQuery, limit, results, cursor,
                   page, headers, deferredUrl, status, statusFile>>

\* lines 170-177: the busy wait runs for pollInterval ms, then the poll is sent
PollDelay ==
    /\ pc = "delay"
    /\ now' = now + pollInterval
    /\ elapsed' = elapsed + pollInterval
    /\ log' = Append(log, GetRequest(deferredUrl, headers))
    /\ pc' = "awaitGet"
    /\ UNCHANGED <<inputs, hook, logger, otherTasks, inProgress, i, returnData, thrown, baseQuery, limit, results, cursor,
                   page, headers, deferredUrl, status, statusFile>>

\* ----------------------------------------------------------- poll responses
\* mutant: the loop runs until a known terminal status
KeepsPolling_UntilTerminal(st) == st \notin {JobStatus.COMPLETED, JobStatus.FAILED}

\* while (status === JobStatus.IN_PROGRESS)
KeepsPolling(st) == st = JobStatus.IN_PROGRESS

\* mutant: the rows of the previous snapshot are kept and the new ones added
PageResults_Merged(res) ==
    (IF statusFile # NoFile /\ statusFile.hasData THEN statusFile.data ELSE <<>>)
        \o (IF res.hasData THEN res.data ELSE <<>>)

\* statusFile?.data || []
PageResults(res) == IF res.hasData THEN res.data ELSE <<>>

\* mutant: the rows of the new page take the place of the accumulated ones
concat_Replaced(rows, pageResults) == pageResults

\* results.concat(pageResults)
concat(rows, pageResults) == rows \o pageResults

\* statusFile?.cursor || null
CursorOrNull(res) == IF Falsy(res.cursor) THEN Null ELSE res.cursor

\* mutant: reaching the limit does not end the pagination
ShouldStop_IgnoresLimit(c, pageResults, rows, l) ==
    c = Null \/ Len(pageResults) = 0

\* mutant: an empty page does not end the pagination
ShouldStop_IgnoresEmptyPage(c, pageResults, rows, l) ==
    c = Null \/ ~LengthBelow(rows, l)

\* mutant: a missing cursor does not end the pagination
ShouldStop_IgnoresCursor(c, pageResults, rows, l) ==
    Len(pageResults) = 0 \/ ~LengthBelow(rows, l)

\* if (!cursor || pageResults.length === 0 || results.length >= limit)
ShouldStop(c, pageResults, rows, l) ==
    c = Null \/ Len(pageResults) = 0 \/ ~LengthBelow(rows, l)

\* the responses the server may give to the poll in flight
PollAnswers ==
    IF \E k \in 1..Len(chain) : UrlName[k] = deferredUrl
    THEN PollResponses(chain, PageOfUrl(deferredUrl), inProgress, patience)
    ELSE {}

\* mutant: a failed job is taken for a finished one
IsFailed_Never(st) == FALSE

\* if (status === JobStatus.FAILED)
IsFailed(st) == st = JobStatus.FAILED

\* the job is still running and the time budget is not used up: the loop
\* goes on to the delay before the next poll
PollAgain ==
    /\ pc = "awaitGet"
    /\ \E res \in PollAnswers, d \in Durations :
        /\ KeepsPolling(res.status)
        /\ ~TimedOut(elapsed + d)
        /\ statusFile' = res
        /\ status' = res.status
        /\ elapsed' = elapsed + d
        /\ now' = now + d
        /\ log' = AnsweredAt(res, now')
    /\ inProgress' = inProgress + 1
    /\ pc' = "delay"
    /\ UNCHANGED <<inputs, hook, logger, otherTasks, i, returnData, thrown, baseQuery, limit, results, cursor, page,
                   headers, deferredUrl>>

\* the job is still running and the time budget is used up
PollTimeout ==
    /\ pc = "awaitGet"
    /\ \E res \in PollAnswers, d \in Durations :
        /\ KeepsPolling(res.status)
        /\ TimedOut(elapsed + d)
        /\ now' = now + d
        /\ log' = AnsweredAt(res, now')
    /\ Catch(TimeoutError)
    /\ UNCHANGED <<inputs, hook, otherTasks, inProgress>>

PollFailed ==
    /\ pc = "awaitGet"
    /\ \E res \in PollAnswers :
        /\ ~KeepsPolling(res.status)
        /\ IsFailed(res.status)
        /\ log' = Answered(res)
        /\ Catch(FailedError(res.error))
    /\ UNCHANGED <<inputs, hook, otherTasks, inProgress, now>>

\* mutant: a poll that was rejected is sent once more
PollRejected_Retried ==
    /\ pc = "awaitGet"
    /\ now' = now
    /\ \E err \in TransportErrors :
        IF Len(log) > 1 /\ log[Len(log) - 1].res.kind = "rejected"
        THEN /\ log' = Answered(Rejected(err))
             /\ Catch(err)
        ELSE /\ log' = Append(Answered(Rejected(err)), GetRequest(deferredUrl, headers))
             /\ UNCHANGED <<logger, returnData, i, pc, thrown, locals>>
    /\ UNCHANGED <<inputs, hook, otherTasks, inProgress>>

\* httpRequest rejects: the error goes to the catch block as it is
PollRejected ==
    /\ pc = "awaitGet"
    /\ \E err \in TransportErrors :
        /\ log' = Answered(Rejected(err))
        /\ Catch(err)
    /\ UNCHANGED <<inputs, hook, otherTasks, inProgress, now>>

\* the poll loop ended without FAILED and the page ends the item: the output
\* record is pushed and the for loop goes on (or execute returns)
PageStop ==
    /\ pc = "awaitGet"
    /\ \E res \in PollAnswers :
        /\ ~KeepsPolling(res.status)
        /\ ~IsFailed(res.status)
        /\ LET rows == concat(results, PageResults(res))
           IN  /\ ShouldStop(CursorOrNull(res), PageResults(res), rows, limit)
               /\ returnData' = Append(returnData,
                      [json |-> [results |-> slice(rows, limit), limit |-> limit,
                                 baseQuery |-> baseQuery],
                       pairedItem |-> [item |-> i]])
        /\ log' = Answered(res)
    /\ i' = i + 1
    /\ pc' = AfterItem
    /\ LocalsGone
    /\ UNCHANGED <<inputs, hook, logger, otherTasks, inProgress, thrown, now>>

\* the poll loop ended without FAILED and more is wanted: the next page is
\* submitted with the cursor just received
PageContinue ==
    /\ pc = "awaitGet"
    /\ \E res \in PollAnswers :
        /\ ~KeepsPolling(res.status)
        /\ ~IsFailed(res.status)
        /\ results' = concat(results, PageResults(res))
        /\ cursor' = CursorOrNull(res)
        /\ ~ShouldStop(cursor', PageResults(res), results', limit)
        /\ now' = now
        /\ log' = Append(Answered(res), PostRequest(baseQuery, cursor', headers))
    /\ page' = page + 1
    /\ pc' = "awaitPost"
    \* deferredUrl, startTime, statusFile and status are scoped to the iteration
    /\ deferredUrl' = Undefined /\ status' = Undefined /\ statusFile' = NoFile /\ elapsed' = 0
    /\ UNCHANGED <<inputs, hook, logger, otherTasks, inProgress, i, returnData, thrown, baseQuery, limit, headers>>

Next ==
    \/ ItemLimitTooLarge \/ ItemSkipped \/ ItemSubmit
    \/ SubmitErrors \/ SubmitNoUrl \/ SubmitRejected \/ SubmitAccepted
    \/ PollDelay \/ PollAgain \/ PollTimeout \/ PollFailed \/ PollRejected
    \/ PageStop \/ PageContinue

Spec == Init /\ [][Next]_vars

\* ------------------------------------------------- execute on several items
\* executions with two input items: the plain query with a small limit, no
\* limit, a negative limit or a limit above the maximum
ItemParams == [query : {PlainQuery}, limit : {Num(1), UndefinedLimit, Num(-1), Num(MAX_LIMIT + 1)}]

ItemChains == {<<1, 1>>, <<MaxPageRows>>}

InitItems ==
    /\ params \in {<<p, q>> : p \in ItemParams, q \in ItemParams}
    /\ credentials = ValidCredentials
    /\ continueOnFail \in BOOLEAN
    /\ chain \in ItemChains
    /\ patience = MaxInProgress
    /\ inProgress = 0
    /\ log = <<>>
    /\ i = 0
    /\ returnData = <<>>
    /\ pc = "loop"
    /\ thrown = NoError
    /\ now = 0
    /\ logger = {}
    /\ otherTasks = 0
    /\ HookIdle
    /\ LocalsInit

SpecItems == InitItems /\ [][Next]_vars

\* ----------------------------------------------------- execute, long chains
\* executions of one item against a server whose chain has one page more:
\* the plain query, a limit that is negative, small (whole or fractional) or
\* too large, and pages of at most one row; the cursors of the server may go
\* round in a circle, so every limit that lets the item run is small
DeepLimits ==
    {Num(-1), Num(1), Halves(3), Num(2), Num(MaxPages + 2), Num(MAX_LIMIT + 1)}

DeepChains == [1..(MaxPages + 1) -> 0..1]

InitDeep ==
    /\ params \in {<<[query |-> PlainQuery, limit |-> l]>> : l \in DeepLimits}
    /\ credentials = ValidCredentials
    /\ continueOnFail \in BOOLEAN
    /\ chain \in DeepChains
    /\ patience = MaxInProgress
    /\ inProgress = 0
    /\ log = <<>>
    /\ i = 0
    /\ returnData = <<>>
    /\ pc = "loop"
    /\ thrown = NoError
    /\ now = 0
    /\ logger = {}
    /\ otherTasks = 0
    /\ HookIdle
    /\ LocalsInit

SpecDeep == InitDeep /\ [][Next]_vars

\* ------------------------------------------------- execute, a patient server
\* executions of one item against a server that goes on answering
\* IN_PROGRESS for longer than any poll loop asks (one page), or that is as
\* patient as elsewhere (two pages)
Patient == 2 * (QUERY_RESULTS_TIMEOUT \div pollInterval)

PollingLimits == {UndefinedLimit, Num(-1), Num(1), Num(MAX_LIMIT + 1)}

InitPolling ==
    /\ params \in {<<[query |-> PlainQuery, limit |-> l]>> : l \in PollingLimits}
    /\ credentials = ValidCredentials
    /\ continueOnFail \in BOOLEAN
    /\ \/ chain = <<1>> /\ patience = Patient
       \/ chain = <<1, 1>> /\ patience = MaxInProgress
    /\ inProgress = 0
    /\ log = <<>>
    /\ i = 0
    /\ returnData = <<>>
    /\ pc = "loop"
    /\ thrown = NoError
    /\ now = 0
    /\ logger = {}
    /\ otherTasks = 0
    /\ HookIdle
    /\ LocalsInit

SpecPolling == InitPolling /\ [][Next]_vars

\* ------------------------------------------------------- the host's thread
\* execute runs on the one thread of the host's event loop.  Another task
\* gets the thread only while execute is suspended at an await or has ended;
\* in the delay execute spins on Date.now() (lines 170-171) and keeps it.
ThreadFree == pc \in {"awaitPost", "awaitGet", "returned", "thrown"}

HostRunsOtherTask ==
    /\ ThreadFree
    /\ otherTasks < MaxOtherTasks
    /\ otherTasks' = otherTasks + 1
    /\ UNCHANGED <<inputs, hook, inProgress, log, i, returnData, pc, thrown, locals, now, logger>>

NextHost == Next \/ HostRunsOtherTask

SpecHost == InitItems /\ [][NextHost]_vars

\* ===================================================== the single-page node
\* nodes/JupiterOneQuery/JupiterOneQuery.node.ts: execute submits the query
\* text as given, polls the one deferred job and pushes one record per item,
\* a result or a failure record; it has no limit parameter, follows no cursor
\* and never reads continueOnFail.  It shares the variables of the paginated
\* node; limit, cursor, page, baseQuery and results stay as they are.
pollIntervalSingle == 100

\* the items of the single-page node: one or two queries, no limit
ItemListsSingle ==
    LET P == [query : {PlainQuery, LimitedQuery}, limit : {UndefinedLimit}]
    IN  {<<p>> : p \in P} \cup {<<p, q>> : p \in P, q \in P}

InitSingle ==
    /\ params \in ItemListsSingle
    /\ credentials \in CredentialValues
    /\ continueOnFail \in BOOLEAN
    /\ chain \in {<<n>> : n \in 0..MaxPageRows}
    /\ patience = MaxInProgress
    /\ inProgress = 0
    /\ log = <<>>
    /\ i = 0
    /\ returnData = <<>>
    /\ pc = "loop"
    /\ thrown = NoError
    /\ now = 0
    /\ logger = {}
    /\ otherTasks = 0
    /\ HookIdle
    /\ LocalsInit

\* lines 89-112: the credentials object as JSON, then the account id and
\* whether there is a token
StartEntries(cr) ==
    { LogEntry("Raw credentials object", {cr.accountId, cr.accessToken}),
      LogEntry("Credentials loaded", {cr.accountId}),
      LogEntry("Individual credential values", {cr.accountId}) }

\* lines 147-151: the headers as they are logged
HeaderEntries(cr) == {LogEntry("Request headers", {"[REDACTED]", cr.accountId})}

MissingCredentialsError ==
    [message |-> [text |-> "Missing required JupiterOne credentials."],
     description |-> "Both account ID and API token are required"]

\* lines 238-251: the catch block pushes a failure record, whatever
\* continueOnFail says, and the loop goes on
SingleCatch(err, logged) ==
    /\ logger' = logger \cup logged \cup ErrorEntries(err)
    /\ returnData' = Append(returnData,
           [json |-> [error |-> err.message, query |-> params[i + 1].query, timestamp |-> now']])
    /\ i' = i + 1
    /\ pc' = AfterItem
    /\ LocalsGone
    /\ UNCHANGED <<inputs, hook, otherTasks, thrown>>

\* lines 117-126: if (!accountId || !accessToken) throw
SingleMissingCredentials ==
    /\ pc = "loop" /\ i < Len(params)
    /\ Falsy(credentials.accountId) \/ Falsy(credentials.accessToken)
    /\ now' = now
    /\ SingleCatch(MissingCredentialsError,
                   StartEntries(credentials) \cup {LogEntry("Missing required credentials", {})})
    /\ UNCHANGED <<inProgress, log>>

\* lines 128-160: the submission, with cursor null and the query as given
SingleSubmit ==
    /\ pc = "loop" /\ i < Len(params)
    /\ ~(Falsy(credentials.accountId) \/ Falsy(credentials.accessToken))
    /\ headers' = Headers(credentials)
    /\ logger' = logger \cup StartEntries(credentials) \cup HeaderEntries(credentials)
                     \cup {LogEntry("GraphQL query object", {})}
    /\ now' = now
    /\ log' = Append(log, PostRequest(params[i + 1].query, Null, headers'))
    /\ pc' = "awaitPost"
    /\ UNCHANGED <<inputs, hook, otherTasks, inProgress, i, returnData, thrown, baseQuery, limit, results,
                   cursor, page, deferredUrl, status, statusFile, elapsed>>

\* lines 162-170: the response carries errors
SingleSubmitErrors ==
    /\ pc = "awaitPost"
    /\ now' = now
    /\ \E res \in SubmitResponses(1) :
        /\ HasErrors(res)
        /\ log' = Answered(res)
        /\ SingleCatch(GraphQLError(params[i + 1].query, res.errors),
                       {LogEntry("GraphQL response received", {})})
    /\ UNCHANGED inProgress

\* lines 172-181: no deferred URL
SingleSubmitNoUrl ==
    /\ pc = "awaitPost"
    /\ now' = now
    /\ \E res \in SubmitResponses(1) :
        /\ ~HasErrors(res)
        /\ NoDeferredUrl(res)
        /\ log' = Answered(res)
        /\ SingleCatch(NoUrlError(res),
                       {LogEntry("GraphQL response received", {}), LogEntry("Deferred URL", {}),
                        LogEntry("No deferred URL in response", {})})
    /\ UNCHANGED inProgress

SingleSubmitRejected ==
    /\ pc = "awaitPost"
    /\ now' = now
    /\ \E err \in TransportErrors :
        /\ log' = Answered(Rejected(err))
        /\ SingleCatch(err, {})
    /\ UNCHANGED inProgress

\* lines 183-198: startTime is taken and the first timeout check passes
SingleSubmitAccepted ==
    /\ pc = "awaitPost"
    /\ \E res \in SubmitResponses(1) :
        /\ ~HasErrors(res)
        /\ ~NoDeferredUrl(res)
        /\ deferredUrl' = res.url
        /\ log' = Answered(res)
    /\ logger' = logger \cup {LogEntry("GraphQL response received", {}), LogEntry("Deferred URL", {}),
                              LogEntry("Starting to poll for results", {})}
    /\ status' = JobStatus.IN_PROGRESS
    /\ statusFile' = NoFile
    /\ elapsed' = 0
    /\ pc' = "delay"
    /\ UNCHANGED <<inputs, hook, otherTasks, inProgress, i, returnData, thrown, baseQuery, limit, results,
                   cursor, page, headers, now>>

\* lines 200-212: the busy wait of pollInterval ms, then the poll
SinglePollDelay ==
    /\ pc = "delay"
    /\ now' = now + pollIntervalSingle
    /\ elapsed' = elapsed + pollIntervalSingle
    /\ log' = Append(log, GetRequest(deferredUrl, headers))
    /\ logger' = logger \cup {LogEntry("Polling for results", {})}
    /\ pc' = "awaitGet"
    /\ UNCHANGED <<inputs, hook, otherTasks, inProgress, i, returnData, thrown, baseQuery, limit, results,
                   cursor, page, headers, deferredUrl, status, statusFile>>

\* what lines 215-216 log of a poll response
PollEntries == {LogEntry("Poll response status", {}), LogEntry("Poll response data", {})}

SinglePollAgain ==
    /\ pc = "awaitGet"
    /\ \E res \in PollResponses(chain, 1, inProgress, patience), d \in Durations :
        /\ KeepsPolling(res.status)
        /\ ~TimedOut(elapsed + d)
        /\ statusFile' = res
        /\ status' = res.status
        /\ elapsed' = elapsed + d
        /\ now' = now + d
        /\ log' = AnsweredAt(res, now')
    /\ logger' = logger \cup PollEntries
    /\ inProgress' = inProgress + 1
    /\ pc' = "delay"
    /\ UNCHANGED <<inputs, hook, otherTasks, i, returnData, thrown, baseQuery, limit, results, cursor, page,
                   headers, deferredUrl>>

SinglePollTimeout ==
    /\ pc = "awaitGet"
    /\ \E res \in PollResponses(chain, 1, inProgress, patience), d \in Durations :
        /\ KeepsPolling(res.status)
        /\ TimedOut(elapsed + d)
        /\ now' = now + d
        /\ log' = AnsweredAt(res, now')
    /\ SingleCatch(TimeoutError, PollEntries \cup {LogEntry("Polling timeout exceeded", {})})
    /\ UNCHANGED inProgress

SinglePollFailed ==
    /\ pc = "awaitGet"
    /\ now' = now
    /\ \E res \in PollResponses(chain, 1, inProgress, patience) :
        /\ ~KeepsPolling(res.status)
        /\ IsFailed(res.status)
        /\ log' = Answered(res)
        /\ SingleCatch(FailedError(res.error), PollEntries \cup {LogEntry("Query failed", {})})
    /\ UNCHANGED inProgress

SinglePollRejected ==
    /\ pc = "awaitGet"
    /\ now' = now
    /\ \E err \in TransportErrors :
        /\ log' = Answered(Rejected(err))
        /\ SingleCatch(err, {})
    /\ UNCHANGED inProgress

\* lines 226-237: the rows of the last response are pushed with the query
\* and a timestamp
SingleDone ==
    /\ pc = "awaitGet"
    /\ \E res \in PollResponses(chain, 1, inProgress, patience) :
        /\ ~KeepsPolling(res.status)
        /\ ~IsFailed(res.status)
        /\ returnData' = Append(returnData,
               [json |-> [query |-> params[i + 1].query, results |-> PageResults(res),
                          timestamp |-> now]])
        /\ log' = Answered(res)
    /\ logger' = logger \cup PollEntries
                     \cup {LogEntry("Query completed successfully", {}), LogEntry("Results count", {})}
    /\ i' = i + 1
    /\ pc' = AfterItem
    /\ LocalsGone
    /\ UNCHANGED <<inputs, hook, otherTasks, inProgress, thrown, now>>

NextSingle ==
    \/ SingleMissingCredentials \/ SingleSubmit
    \/ SingleSubmitErrors \/ SingleSubmitNoUrl \/ SingleSubmitRejected \/ SingleSubmitAccepted
    \/ SinglePollDelay \/ SinglePollAgain \/ SinglePollTimeout \/ SinglePollFailed
    \/ SinglePollRejected \/ SingleDone

SpecSingle == InitSingle /\ [][NextSingle]_vars

\* ========================================================= the webhook node
\* nodes/JupiterOneWebhook/JupiterOneWebhook.node.ts: webhook() is called
\* once per incoming POST with the node's parameters, the request's headers
\* and its parsed body; it returns the HTTP response and, when it accepts the
\* request, the workflow data for the downstream nodes.  It has no await:
\* every path through it is one step.

\* a JSON value: its type, its text when it is a string, its number (the
\* length of an array, the total of a results object)
Val(t, s, n) == [t |-> t, s |-> s, n |-> n]
Str(s) == Val("string", s, 0)
Number(n) == Val("number", "", n)
JsNull == Val("null", "", 0)
JsUndefined == Val("undefined", "", 0)
Arr(n) == Val("array", "", n)
Obj(s, total) == Val("object", s, total)
IsoDate(t) == Val("date", "", t)

\* v is truthy
Truthy(v) ==
    ~(\/ v.t \in {"null", "undefined"}
      \/ v.t = "string" /\ v.s = ""
      \/ v.t = "number" /\ v.n = 0)

\* Array.isArray(v)
isArray(v) == v.t = "array"

NoFields == [f \in {} |-> JsUndefined]

\* a request body: what kind of value it is, whether it is falsy, and its
\* own enumerable fields (an array has its indices)
Body(kind, falsy, fields) == [kind |-> kind, falsy |-> falsy, fields |-> fields]

\* typeof body
typeof(b) == IF b.kind \in {"object", "array", "null"} THEN "object" ELSE b.kind

NonObjectBodies ==
    { Body("null", TRUE, NoFields), Body("undefined", TRUE, NoFields),
      Body("string", TRUE, NoFields), Body("string", FALSE, NoFields),
      Body("number", TRUE, NoFields), Body("number", FALSE, NoFields) }

\* the values a payload may give each of its fields
FieldValues ==
    [ruleName |-> {Str("rule-1"), Str("")},
     severity |-> {Str("HIGH")},
     triggeredAt |-> {Str("2024-01-01")},
     queryData |-> {Obj("queryData", 0), JsNull},
     queryResults |-> {Obj("queryResults", 3), Obj("queryResults", 0)},
     data |-> {Arr(MaxEntities), Arr(0), Obj("data", 0)},
     account |-> {Str("acct")},
     timestamp |-> {Str("2020-02-02")},
     entities |-> {Str("own entities")}]

\* a field the payload does not have
Absent == Val("absent", "", 0)

Options(n) == FieldValues[n] \cup {Absent}

\* the fields a choice of options leaves the payload with
Present(choice) == [f \in {n \in DOMAIN choice : choice[n] # Absent} |-> choice[f]]

ObjectBodies ==
    { Body("object", FALSE,
           Present([ruleName |-> rn, severity |-> sv, triggeredAt |-> ta, queryData |-> qd,
                    queryResults |-> qr, data |-> da, account |-> ac, timestamp |-> ts,
                    entities |-> en])) :
        rn \in Options("ruleName"), sv \in Options("severity"), ta \in Options("triggeredAt"),
        qd \in Options("queryData"), qr \in Options("queryResults"), da \in Options("data"),
        ac \in Options("account"), ts \in Options("timestamp"), en \in Options("entities") }

ArrayBodies == {Body("array", FALSE, NoFields), Body("array", FALSE, "0" :> Str("first"))}

\* a few bodies for the requests whose headers matter
SomeBodies ==
    { Body("null", TRUE, NoFields), Body("string", FALSE, NoFields), Body("object", FALSE, NoFields),
      Body("object", FALSE, ("ruleName" :> Str("rule-1")) @@ ("account" :> Str("acct"))) }

\* headerName.toLowerCase()
toLowerCase ==
    ("X-JupiterOne-Signature" :> "x-jupiterone-signature") @@ ("x-token" :> "x-token")

NoHeadersReceived == [h \in {} |-> ""]

\* the headers of a request, under their lower-case names
HeadersReceived ==
    { NoHeadersReceived,
      "x-jupiterone-signature" :> "s3cret",
      "x-jupiterone-signature" :> "wrong",
      "x-jupiterone-signature" :> "",
      "x-token" :> "s3cret" }

HookCalls ==
    { [authentication |-> "none", webhookSecret |-> "", headerName |-> "X-JupiterOne-Signature",
       headers |-> h, body |-> b] :
          h \in {NoHeadersReceived}, b \in NonObjectBodies \cup ObjectBodies \cup ArrayBodies }
    \cup
    { [authentication |-> "header", webhookSecret |-> sec, headerName |-> n,
       headers |-> h, body |-> b] :
          sec \in {"s3cret", ""}, n \in DOMAIN toLowerCase, h \in HeadersReceived, b \in SomeBodies }

InitWebhook ==
    /\ hookCall \in HookCalls
    /\ hookResult = NoResult
    /\ params = <<>>
    /\ credentials = ValidCredentials
    /\ continueOnFail = FALSE
    /\ chain = <<0>>
    /\ patience = MaxInProgress
    /\ inProgress = 0
    /\ log = <<>>
    /\ i = 0
    /\ returnData = <<>>
    /\ pc = "returned"
    /\ thrown = NoError
    /\ now = 0
    /\ logger = {}
    /\ otherTasks = 0
    /\ LocalsInit

\* headers[headerName.toLowerCase()]
receivedToken(c) ==
    IF toLowerCase[c.headerName] \in DOMAIN c.headers
    THEN c.headers[toLowerCase[c.headerName]] ELSE Undefined

\* mutant: the token received is not compared with the secret
TokenDiffers_Never(received, secret) == FALSE

\* receivedToken !== webhookSecret
TokenDiffers(received, secret) == received # secret

\* !body || typeof body !== 'object'
NotAnObject(b) == b.falsy \/ typeof(b) # "object"

ErrorResponse(code, text) == [webhookResponse |-> [statusCode |-> code, body |-> [error |-> text]]]

\* the query node's variables, which webhook() does not touch
QueryUntouched ==
    UNCHANGED <<inputs, inProgress, log, i, returnData, pc, thrown, locals, now, otherTasks, hookCall>>

\* lines 80-94
WebhookMissingHeader ==
    /\ hookCall # NoCall /\ hookResult = NoResult
    /\ hookCall.authentication = "header"
    /\ Falsy(receivedToken(hookCall))
    /\ logger' = logger \cup {LogEntry("Missing authentication header", {})}
    /\ hookResult' = ErrorResponse(401, "Missing authentication header")
    /\ QueryUntouched

\* lines 96-104
WebhookInvalidToken ==
    /\ hookCall # NoCall /\ hookResult = NoResult
    /\ hookCall.authentication = "header"
    /\ ~Falsy(receivedToken(hookCall))
    /\ TokenDiffers(receivedToken(hookCall), hookCall.webhookSecret)
    /\ logger' = logger \cup {LogEntry("Invalid authentication token", {})}
    /\ hookResult' = ErrorResponse(401, "Invalid authentication token")
    /\ QueryUntouched

\* the authentication of lines 80-105 let the request pass
Authenticated(c) ==
    c.authentication = "header" =>
        /\ ~Falsy(receivedToken(c))
        /\ ~TokenDiffers(receivedToken(c), c.webhookSecret)

\* lines 107-116
WebhookInvalidPayload ==
    /\ hookCall # NoCall /\ hookResult = NoResult
    /\ Authenticated(hookCall)
    /\ NotAnObject(hookCall.body)
    /\ logger' = logger \cup {LogEntry("Invalid webhook payload: not an object", {})}
    /\ hookResult' = ErrorResponse(400, "Invalid webhook payload")
    /\ QueryUntouched

\* the fields the destructuring of line 120 takes out by name
Destructured == {"ruleName", "severity", "triggeredAt", "queryData", "queryResults", "data"}

\* the value of field f of the body, undefined when it has none
Field(b, f) == IF f \in DOMAIN b.fields THEN b.fields[f] ELSE JsUndefined

\* ...otherFields
otherFields(b) == [f \in (DOMAIN b.fields) \ Destructured |-> b.fields[f]]

\* v || d
OrElse(v, d) == IF Truthy(v) THEN v ELSE d

\* Object.assign(target, source)
assign(target, source) ==
    [f \in (DOMAIN target) \cup (DOMAIN source) |->
        IF f \in DOMAIN source THEN source[f] ELSE target[f]]

\* (queryResults as any)?.total || 0
TotalOf(v) == IF v.t = "object" THEN Number(v.n) ELSE Number(0)

\* lines 120-146: the object handed downstream, built at time t
webhookData(b, t) ==
    LET queryData == Field(b, "queryData")
        queryResults == Field(b, "queryResults")
        data == Field(b, "data")
        common == [ruleName |-> OrElse(Field(b, "ruleName"), Str("Unknown Rule")),
                   severity |-> OrElse(Field(b, "severity"), Str("UNKNOWN")),
                   triggeredAt |-> OrElse(Field(b, "triggeredAt"), IsoDate(t)),
                   timestamp |-> IsoDate(t)]
        withQueryData == IF Truthy(queryData) THEN [queryData |-> queryData] ELSE NoFields
        withQueryResults ==
            IF Truthy(queryResults)
            THEN [queryResults |-> queryResults, totalResults |-> TotalOf(queryResults)]
            ELSE NoFields
        withEntities ==
            IF Truthy(data) /\ isArray(data)
            THEN [entities |-> data, totalEntities |-> Number(data.n)]
            ELSE NoFields
    IN  assign(assign(assign(assign(common, withQueryData), withQueryResults), withEntities),
               otherFields(b))

\* lines 118-160
WebhookForward ==
    /\ hookCall # NoCall /\ hookResult = NoResult
    /\ Authenticated(hookCall)
    /\ ~NotAnObject(hookCall.body)
    /\ hookResult' = [webhookResponse |-> [statusCode |-> 200, body |-> [status |-> "ok"]],
                      workflowData |-> << << [json |-> webhookData(hookCall.body, now)] >> >>]
    /\ logger' = logger
    /\ QueryUntouched

NextWebhook ==
    \/ WebhookMissingHeader \/ WebhookInvalidToken \/ WebhookInvalidPayload \/ WebhookForward

SpecWebhook == InitWebhook /\ [][NextWebhook]_vars

\* =================================================================== claims
\* what the log and the output say about item k
Items == 0..(Len(params) - 1)
Done(k) == k < i \/ (k = i /\ pc = "thrown")
IsResult(e) == "results" \in DOMAIN e.json
IsFailure(e) == "error" \in DOMAIN e.json
Outputs(k) == {n \in 1..Len(returnData) : returnData[n].pairedItem.item = k}
Succeeded(k) == \E n \in Outputs(k) : IsResult(returnData[n])
FailedWith(k, msg) ==
    \/ pc = "thrown" /\ i = k /\ thrown.message = msg
    \/ \E n \in Outputs(k) : IsFailure(returnData[n]) /\ returnData[n].json.error = msg
Requests(k) == {n \in 1..Len(log) : log[n].item = k}
Posts(k) == {n \in Requests(k) : log[n].method = "POST"}
Gets(k) == {n \in Requests(k) : log[n].method = "GET"}

\* request n is a poll whose response ended its poll loop without FAILED
IsPage(n) ==
    /\ log[n].method = "GET" /\ log[n].res.kind = "get"
    /\ log[n].res.status \notin {JobStatus.IN_PROGRESS, JobStatus.FAILED}

RowsOf(res) == IF res.hasData THEN res.data ELSE <<>>

\* the rows of the pages item k received among requests 1..n, in arrival order
RECURSIVE Received(_, _)
Received(k, n) ==
    IF n = 0 THEN <<>>
    ELSE Received(k, n - 1) \o (IF log[n].item = k /\ IsPage(n) THEN RowsOf(log[n].res) ELSE <<>>)

\* the cap the specification gives a limit: the limit when positive, else MAX_CAP
CapOf(l) == IF l.t = "number" /\ l.v2 > 0 THEN l.v2 \div 2 ELSE MAX_LIMIT
InRange(l) == l.t = "number" /\ l.v2 % 2 = 0 /\ l.v2 >= 2 /\ l.v2 <= 2 * MAX_LIMIT

\* every poll loop of item k ended with status COMPLETED
AllCompleted(k) ==
    \A n \in Gets(k) : log[n].res.kind = "get" =>
        log[n].res.status \in {JobStatus.IN_PROGRESS, JobStatus.COMPLETED}

\* the rows on the pages up to the first page that is empty or the last one
RECURSIVE ServedRows(_, _)
ServedRows(ch, k) ==
    IF k > Len(ch) \/ ch[k] = 0 THEN 0
    ELSE ch[k] + ServedRows(ch, k + 1)

\* both credentials are there
CredentialsPresent == ~Falsy(credentials.accountId) /\ ~Falsy(credentials.accessToken)

\* C1 as stated: for every limit L with 1 <= L <= MAX_CAP a successful
\* invocation returns exactly min(L, total rows of the server's chain) rows
\* (taken with credentials present and every job answered COMPLETED).
C1_RowCountIsMinOfLimitAndTotal ==
    \A k \in Items : \A n \in Outputs(k) :
        (/\ IsResult(returnData[n]) /\ InRange(params[k + 1].limit) /\ AllCompleted(k)
         /\ CredentialsPresent) =>
            Len(returnData[n].json.results) = Min(CapOf(params[k + 1].limit), TotalRows(chain))

\* C1 amended: for every integer limit L with 1 <= L <= MAX_CAP a successful
\* invocation whose poll loops all ended COMPLETED returns exactly min(L, R)
\* rows, R the number of rows on the pages up to the first empty page (all
\* rows when no page is empty).
C1_RowCountIsMinOfLimitAndServed ==
    \A k \in Items : \A n \in Outputs(k) :
        (IsResult(returnData[n]) /\ InRange(params[k + 1].limit) /\ AllCompleted(k)) =>
            Len(returnData[n].json.results) = Min(CapOf(params[k + 1].limit), ServedRows(chain, 1))

\* C1 witness: a two-page invocation cut by its limit below the total, and
\* in the same run's chain nothing empty.
C1_Witness ==
    \E k \in Items : \E n \in Outputs(k) :
        /\ IsResult(returnData[n]) /\ InRange(params[k + 1].limit) /\ AllCompleted(k)
        /\ Cardinality(Posts(k)) = 2
        /\ Len(returnData[n].json.results) = CapOf(params[k + 1].limit)
        /\ TotalRows(chain) > CapOf(params[k + 1].limit)

\* C2: the rows a successful invocation emits are the first cap entries of
\* the concatenation, in arrival order, of the rows of every page received.
C2_EmittedIsPrefixOfReceived ==
    \A k \in Items : \A n \in Outputs(k) :
        IsResult(returnData[n]) =>
            LET all == Received(k, Len(log))
                cap == CapOf(params[k + 1].limit)
            IN  returnData[n].json.results = SubSeq(all, 1, Min(cap, Len(all)))

\* C2 witness: the last page overshoots the cap and is trimmed
C2_Witness ==
    \E k \in Items : \E n \in Outputs(k) :
        /\ IsResult(returnData[n])
        /\ Cardinality(Posts(k)) = 2
        /\ Len(Received(k, Len(log))) > CapOf(params[k + 1].limit)
        /\ Len(returnData[n].json.results) = CapOf(params[k + 1].limit)

\* the step answers the poll in flight with a response that ends its poll
\* loop without FAILED (the response is log'[Len(log)].res)
PageArrives ==
    /\ pc = "awaitGet"
    /\ log'[Len(log)].res.kind = "get"
    /\ log'[Len(log)].res.status \notin {JobStatus.IN_PROGRESS, JobStatus.FAILED}

\* C3: after each completed page the Pager stops iff the returned cursor is
\* empty or absent, the page has zero rows or the accumulated row count is
\* >= cap; otherwise it starts exactly one more submit/poll cycle.
C3_StopsIffCursorEndsOrEmptyOrCap ==
    [][PageArrives =>
        LET res == log'[Len(log)].res
            stop == \/ res.cursor \in {"", Undefined}
                    \/ Len(RowsOf(res)) = 0
                    \/ 2 * (Len(results) + Len(RowsOf(res))) >= limit.v2
        IN  /\ stop => /\ Len(log') = Len(log)
                       /\ Len(returnData') = Len(returnData) + 1
                       /\ IsResult(returnData'[Len(returnData')])
                       /\ pc' \in {"loop", "returned"}
            /\ ~stop => /\ Len(log') = Len(log) + 1
                        /\ log'[Len(log')].method = "POST"
                        /\ log'[Len(log')].item = i
                        /\ page' = page + 1
                        /\ pc' = "awaitPost"
                        /\ returnData' = returnData]_vars

\* C3 witness: pages [1,2] with a cursor, then [3] without, and a cap above 3:
\* rows [1,2,3] after exactly two submit/poll cycles
C3_Witness ==
    \E k \in Items : \E n \in Outputs(k) :
        /\ IsResult(returnData[n])
        /\ returnData[n].json.results = <<1, 2, 3>>
        /\ CapOf(params[k + 1].limit) > 3
        /\ Cardinality(Posts(k)) = 2
        /\ Cardinality({m \in Gets(k) : IsPage(m)}) = 2

\* item k is past its normalization
Running(k) == k = i /\ pc \in {"awaitPost", "delay", "awaitGet"}
Begun(k) == Done(k) \/ Running(k)

\* C4 as stated: for a limit that is 0, absent, negative or non-numeric the
\* effective cap is MAX_CAP and the invocation runs the query: the item
\* submits it, holds the cap MAX_CAP while it runs and reports it.
C4_NoLimitMeansMaxCap ==
    \A k \in Items :
        (/\ Begun(k) /\ CredentialsPresent
         /\ (params[k + 1].limit.t # "number" \/ params[k + 1].limit.v2 <= 0)) =>
            /\ Posts(k) # {}
            /\ Running(k) => limit = Num(MAX_LIMIT)
            /\ \A n \in Outputs(k) :
                   IsResult(returnData[n]) => returnData[n].json.limit = Num(MAX_LIMIT)

\* the validation error of a limit above the bound: names value and bound
LimitMessage(l) ==
    [text |-> "Limit value exceeds maximum allowed value", value |-> l, bound |-> MAX_LIMIT]

\* C5: for a limit greater than MAX_CAP the invocation fails with a
\* validation error naming the offending value and the bound, and no request
\* (POST or GET) is issued for it.
C5_LimitAboveMaxFailsWithoutRequest ==
    \A k \in Items :
        (Begun(k) /\ params[k + 1].limit.t = "number" /\ params[k + 1].limit.v2 > 2 * MAX_LIMIT) =>
            /\ Requests(k) = {}
            /\ Done(k)
            /\ FailedWith(k, LimitMessage(params[k + 1].limit))

\* C5 witness: an item with limit MAX_CAP + 1 ended with the validation
\* error and sent nothing
C5_Witness ==
    \E k \in Items :
        /\ Done(k) /\ params[k + 1].limit = Num(MAX_LIMIT + 1)
        /\ Requests(k) = {}
        /\ FailedWith(k, LimitMessage(Num(MAX_LIMIT + 1)))

\* C6 as stated: the text of every submission contains no residual LIMIT <n>
\* clause and is the same text on every page of the invocation.
C6_NoResidualLimitInSubmittedText ==
    \A n \in 1..Len(log) : (log[n].method = "POST" /\ CredentialsPresent) =>
        /\ ~HasLimitClause(log[n].query)
        /\ \A m \in Posts(log[n].item) : log[m].query = log[n].query

\* C7 as stated: with accountId or accessToken missing the invocation fails
\* with the credential error and no request is issued.
C7_MissingCredentialsNoRequest ==
    (Falsy(credentials.accountId) \/ Falsy(credentials.accessToken)) =>
        /\ log = <<>>
        /\ \A k \in Items : Begun(k) =>
               FailedWith(k, [text |-> "Missing required JupiterOne credentials."])

\* request n is the last one item k issued
LastRequestOf(k, n) == \A m \in Requests(k) : m <= n

\* submission n was answered with a non-empty errors array
ErrorsAnswered(n) ==
    log[n].method = "POST" /\ log[n].res.kind = "post" /\ log[n].res.errors = "nonempty"

\* the query error carries the text q and, where the thrown error is still
\* at hand, the errors payload
QueryErrorCarries(k, q) ==
    /\ FailedWith(k, [text |-> "JupiterOne returned error(s) for query", query |-> q])
    /\ (pc = "thrown" /\ i = k) => thrown.description = "nonempty"

\* C8 as stated: a submission response with a non-empty errors array causes
\* a query error carrying the original query text and the error payload, and
\* no poll is attempted for that submission.
C8_ErrorsCarryOriginalQuery ==
    \A n \in 1..Len(log) : (ErrorsAnswered(n) /\ CredentialsPresent) =>
        /\ LastRequestOf(log[n].item, n)
        /\ QueryErrorCarries(log[n].item, params[log[n].item + 1].query)

\* C8 amended: ... causes a query error carrying the query text as submitted
\* (LIMIT clause removed, trimmed) and the error payload, and no poll is
\* attempted for that submission.
C8_ErrorsCarrySubmittedQuery ==
    \A n \in 1..Len(log) : ErrorsAnswered(n) =>
        /\ LastRequestOf(log[n].item, n)
        /\ QueryErrorCarries(log[n].item, log[n].query)

\* C8 witness: errors together with a deferred URL, on a query whose
\* submitted text differs from the original
C8_Witness ==
    \E n \in 1..Len(log) :
        /\ ErrorsAnswered(n) /\ log[n].res.url = UrlName[1]
        /\ log[n].query # params[log[n].item + 1].query
        /\ Done(log[n].item)

\* submission n was answered without errors and without a deferred URL
NoUrlAnswered(n) ==
    /\ log[n].method = "POST" /\ log[n].res.kind = "post"
    /\ log[n].res.errors = "absent" /\ log[n].res.url \in {"", Undefined}

\* C9: a submission response without an errors field that has no deferred
\* URL (absent or empty) fails with the 'No deferred result URL' error and
\* no poll is issued for that submission.
C9_MissingUrlIsProtocolError ==
    \A n \in 1..Len(log) : NoUrlAnswered(n) =>
        /\ LastRequestOf(log[n].item, n)
        /\ Done(log[n].item)
        /\ FailedWith(log[n].item, [text |-> "No deferred result URL returned from JupiterOne."])

\* C9 witness: a submission answered without errors and with an empty URL
\* ended its item
C9_Witness ==
    \E n \in 1..Len(log) :
        NoUrlAnswered(n) /\ log[n].res.url = "" /\ Done(log[n].item)

\* the step answers the poll in flight with a status that is none of
\* IN_PROGRESS, COMPLETED, FAILED (or with no status)
UnknownStatusArrives ==
    /\ pc = "awaitGet"
    /\ log'[Len(log)].res.kind = "get"
    /\ log'[Len(log)].res.status
           \notin {JobStatus.IN_PROGRESS, JobStatus.COMPLETED, JobStatus.FAILED}

SubmissionOf(n) ==
    CHOOSE m \in Posts(log[n].item) :
        m < n /\ \A q \in Posts(log[n].item) : q < n => q <= m

\* the first submission of item k
FirstPost(k) == CHOOSE m \in Posts(k) : \A q \in Posts(k) : m <= q

\* poll n was answered IN_PROGRESS
InProgressAnswered(n) ==
    /\ log[n].method = "GET" /\ log[n].res.kind = "get"
    /\ log[n].res.status = JobStatus.IN_PROGRESS

\* the time between the moment the job of poll n was accepted (startTime)
\* and the moment t
SinceAccepted(n, t) == t - log[SubmissionOf(n)].answered

\* the timeout error: it states the timeout value, 300 seconds
TimeoutMessage == [text |-> "Exceeded request timeout", seconds |-> 300]

\* C11: a job that is still IN_PROGRESS when more than the timeout budget
\* (5 minutes) has passed since it was accepted ends its invocation with the
\* timeout error stating the timeout value, after which the invocation sends
\* no further poll or submission and emits no rows; and no poll is sent once
\* the check before its delay finds the budget exceeded.
C11_TimeoutEndsInvocation ==
    /\ TimeoutMessage.seconds * 1000 = QUERY_RESULTS_TIMEOUT
    /\ \A n \in 1..Len(log) :
        /\ (InProgressAnswered(n) /\ SinceAccepted(n, log[n].answered) > 5 * 60 * 1000) =>
               /\ LastRequestOf(log[n].item, n)
               /\ Done(log[n].item)
               /\ FailedWith(log[n].item, TimeoutMessage)
               /\ ~Succeeded(log[n].item)
        /\ log[n].method = "GET" =>
               SinceAccepted(n, log[n].sent - pollInterval) <= 5 * 60 * 1000

\* C11 witness: a job polled twice, answered IN_PROGRESS both times, the
\* second answer after the budget: the item ended with the timeout error
C11_Witness ==
    \E n \in 2..Len(log) :
        /\ InProgressAnswered(n) /\ InProgressAnswered(n - 1)
        /\ SinceAccepted(n, log[n].answered) > QUERY_RESULTS_TIMEOUT
        /\ Done(log[n].item)
        /\ FailedWith(log[n].item, TimeoutMessage)

\* C12 as stated: no poll is sent when, at the timeout check before it, the
\* time since the invocation's first submission exceeds the timeout, on the
\* first page or on any later page.
C12_NoPollPastBudgetSinceFirstSubmission ==
    \A n \in 1..Len(log) : (log[n].method = "GET" /\ CredentialsPresent) =>
        (log[n].sent - pollInterval) - log[FirstPost(log[n].item)].sent <= 5 * 60 * 1000

\* poll n was answered FAILED
FailedAnswered(n) ==
    /\ log[n].method = "GET" /\ log[n].res.kind = "get"
    /\ log[n].res.status = JobStatus.FAILED

\* C13: a poll response with status FAILED ends the invocation with a query
\* error carrying the server-supplied error string: no rows are emitted for
\* the invocation and it sends no further poll or submission.
C13_FailedStatusEndsInvocation ==
    \A n \in 1..Len(log) : FailedAnswered(n) =>
        /\ LastRequestOf(log[n].item, n)
        /\ Done(log[n].item)
        /\ FailedWith(log[n].item,
               [text |-> "JupiterOne returned error(s) for query", query |-> log[n].res.error])
        /\ ~Succeeded(log[n].item)

\* C13 witness: the job of the second page failed after the first page had
\* delivered rows
C13_Witness ==
    \E n \in 1..Len(log) :
        /\ FailedAnswered(n) /\ Done(log[n].item)
        /\ Cardinality(Posts(log[n].item)) = 2
        /\ Len(Received(log[n].item, n)) > 0
        /\ log[n].res.error = "query failed"

\* the step answers the poll in flight with status COMPLETED
CompletedArrives ==
    /\ pc = "awaitGet"
    /\ log'[Len(log)].res.kind = "get"
    /\ log'[Len(log)].res.status = JobStatus.COMPLETED

\* C14: when a poll returns COMPLETED, the page's rows and cursor are exactly
\* the data and cursor fields of that response (absent data = empty sequence,
\* absent or empty cursor = none): the accumulator grows by just these rows,
\* the next submission carries just this cursor, and nothing an earlier poll
\* response of the job carried is merged in.
C14_PageIsTerminalResponse ==
    [][CompletedArrives =>
        LET res == log'[Len(log)].res
            rows == IF res.hasData THEN res.data ELSE <<>>
            next == IF res.cursor \in {"", Undefined} THEN Null ELSE res.cursor
            all == results \o rows
        IN  /\ pc' = "awaitPost" =>
                   /\ results' = all
                   /\ cursor' = next
                   /\ log'[Len(log')].method = "POST" /\ log'[Len(log')].cursor = next
            /\ pc' # "awaitPost" =>
                   /\ Len(returnData') = Len(returnData) + 1
                   /\ returnData'[Len(returnData')].json.results
                          = SubSeq(all, 1, Min(Trunc(limit), Len(all)))]_vars

\* C14 witness: a job answered IN_PROGRESS with rows, then COMPLETED with
\* rows: the item emitted the rows of the COMPLETED response alone
C14_Witness ==
    \E n \in 1..(Len(log) - 1) : \E m \in Outputs(log[n].item) :
        /\ InProgressAnswered(n) /\ log[n].res.hasData /\ Len(log[n].res.data) > 0
        /\ log[n + 1].method = "GET" /\ log[n + 1].res.kind = "get"
        /\ log[n + 1].res.status = JobStatus.COMPLETED
        /\ Cardinality(Posts(log[n].item)) = 1
        /\ IsResult(returnData[m])
        /\ returnData[m].json.results = log[n + 1].res.data

\* request n was answered with a failure: an errors response, a response
\* without a deferred URL, a FAILED status, an IN_PROGRESS status after the
\* timeout budget, or a transport failure
FailureAnswered(n) ==
    \/ log[n].res.kind = "rejected"
    \/ log[n].res.kind = "post" /\ (log[n].res.errors # "absent" \/ log[n].res.url \in {"", Undefined})
    \/ FailedAnswered(n)
    \/ InProgressAnswered(n) /\ SinceAccepted(n, log[n].answered) > QUERY_RESULTS_TIMEOUT

\* an output record paired with item k
PairedWith(e, k) == "pairedItem" \in DOMAIN e /\ e.pairedItem.item = k

\* C15 as stated: without continue-on-failure every submission or poll
\* failure propagates at once as a thrown fault of execute: it is the last
\* request of the call, no failure record is ever in the output and no record
\* is emitted for the failing item.
C15_FailuresPropagate ==
    (~continueOnFail /\ CredentialsPresent) =>
        /\ \A m \in 1..Len(returnData) : ~IsFailure(returnData[m])
        /\ \A n \in 1..Len(log) : FailureAnswered(n) =>
               /\ n = Len(log)
               /\ pc = "thrown" /\ i = log[n].item
               /\ thrown # NoError
               /\ \A m \in 1..Len(returnData) : ~PairedWith(returnData[m], log[n].item)

\* the output records of item k: those paired with it or, where records
\* carry no pairing, the one at its position
RecordsOf(k) ==
    {m \in 1..Len(returnData) :
        IF "pairedItem" \in DOMAIN returnData[m] THEN returnData[m].pairedItem.item = k
        ELSE m = k + 1}

\* item k is done and one of its requests was answered with a failure
Failing(k) == Done(k) /\ \E n \in Requests(k) : FailureAnswered(n)

\* C16 as stated: in continue-on-failure mode a failing item yields exactly
\* one failure record, holding the original query, the error message and a
\* timestamp, instead of a thrown fault, and execute goes on with the other
\* items.
C16_FailureRecordHoldsQueryErrorTime ==
    (continueOnFail /\ CredentialsPresent) =>
        /\ pc # "thrown"
        /\ \A k \in Items : Failing(k) =>
               /\ Cardinality(RecordsOf(k)) = 1
               /\ \A m \in RecordsOf(k) :
                      /\ DOMAIN returnData[m].json = {"error", "query", "timestamp"}
                      /\ returnData[m].json.query = params[k + 1].query
                      /\ returnData[m].json.error.text # "none"

\* C17 as stated: the access token never appears in what an invocation logs
\* or reports; where the authorization value is shown, only the redacted
\* placeholder stands for it.
C17_TokenNeverLogged ==
    ~Falsy(credentials.accessToken) =>
        /\ \A e \in logger : credentials.accessToken \notin e.shown
        /\ \A e \in logger : e.text = "Request headers" => "[REDACTED]" \in e.shown
        /\ thrown.message.text \notin {credentials.accessToken}

\* at most one request is in flight, and it is the last one sent
OneInFlight == \A n \in 1..Len(log) : log[n].res = Pending => n = Len(log)

\* poll n follows a submission of its item that was answered without errors
\* and with a deferred URL, and it targets that URL with the same headers
PollFollowsSubmission(n) ==
    /\ \E m \in Posts(log[n].item) : m < n
    /\ LET sub == log[SubmissionOf(n)]
       IN  /\ sub.res.kind = "post" /\ sub.res.errors = "absent"
           /\ sub.res.url \notin {"", Undefined}
           /\ log[n].url = sub.res.url
           /\ log[n].headers = sub.headers

\* submission n is not the first of its item
LaterSubmission(n) == log[n].method = "POST" /\ \E m \in Posts(log[n].item) : m < n

RECURSIVE Sent(_, _)
Sent(k, n) ==
    IF n = 0 THEN <<>>
    ELSE Sent(k, n - 1) \o
         (IF log[n].item = k
          THEN <<[method |-> log[n].method, url |-> log[n].url, query |-> log[n].query,
                  cursor |-> log[n].cursor, headers |-> log[n].headers]>>
          ELSE <<>>)

\* the responses item k got among requests 1..n, in order, each with the
\* time it took
RECURSIVE Got(_, _)
Got(k, n) ==
    IF n = 0 THEN <<>>
    ELSE Got(k, n - 1) \o
         (IF log[n].item = k /\ log[n].res # Pending
          THEN <<[res |-> log[n].res, took |-> log[n].answered - log[n].sent]>>
          ELSE <<>>)

\* what item k put out: its records without the pairing, and its fault
Emitted(k) ==
    [records |-> {returnData[m].json : m \in RecordsOf(k)},
     fault |-> IF pc = "thrown" /\ i = k THEN thrown ELSE NoError]

\* C19: no mutable state is shared between the items of one execute call:
\* every item that is processed starts with an empty accumulator and a null
\* cursor (its first submission carries no cursor, its rows are rows of its
\* own pages), and what it sends and emits depends only on its parameters and
\* on the responses to its own requests: two processed items with the same
\* parameters that got the same responses sent the same requests and emitted
\* the same.
C19_ItemsShareNoState ==
    /\ \A k \in Items :
        /\ Posts(k) # {} => log[FirstPost(k)].cursor = Null
        /\ \A m \in RecordsOf(k) : IsResult(returnData[m]) =>
               returnData[m].json.results
                   = SubSeq(Received(k, Len(log)), 1, Len(returnData[m].json.results))
    /\ \A j \in Items : \A k \in Items :
        (params[j + 1] = params[k + 1] /\ Got(j, Len(log)) = Got(k, Len(log))
         /\ Begun(j) /\ Begun(k)) =>
            /\ Sent(j, Len(log)) = Sent(k, Len(log))
            /\ (Done(j) /\ Done(k)) => Emitted(j) = Emitted(k)

\* C19 witness: two items with the same parameters; the first stopped at its
\* limit with a cursor left over, the second got the same responses and
\* emitted the same rows
C19_Witness ==
    /\ Len(params) = 2 /\ params[1] = params[2] /\ Done(1)
    /\ Succeeded(0) /\ Succeeded(1)
    /\ Got(0, Len(log)) = Got(1, Len(log))
    /\ \E n \in Gets(0) : log[n].res.kind = "get" /\ ~Falsy(log[n].res.cursor)

\* C20 as stated: the poll-interval delay is a non-blocking suspension:
\* while an invocation waits out its poll interval, another task scheduled
\* on the same thread can run.
C20_DelayLeavesThreadFree ==
    (pc = "delay" /\ otherTasks < MaxOtherTasks) => ENABLED HostRunsOtherTask

\* request n was rejected by the transport
RejectedAnswered(n) == log[n].res.kind = "rejected"

\* C21: no request is retried: a transport-level failure (network error or
\* non-2xx) of a submission POST or a poll GET is surfaced as it is (the
\* thrown fault is the transport's error, the failure record holds its
\* message), and after it no further request is issued for that invocation;
\* nor is any submission sent twice, or a poll sent again after an answer
\* other than IN_PROGRESS.
C21_TransportFailureNotRetried ==
    \A n \in 1..Len(log) :
        /\ RejectedAnswered(n) =>
               /\ log[n].res.error \in TransportErrors
               /\ LastRequestOf(log[n].item, n)
               /\ Done(log[n].item)
               /\ ~Succeeded(log[n].item)
               /\ FailedWith(log[n].item, log[n].res.error.message)
               /\ (pc = "thrown" /\ i = log[n].item) => thrown = log[n].res.error
        /\ \A m \in 1..(n - 1) : log[m].item = log[n].item =>
               /\ (log[m].method = "POST" /\ log[n].method = "POST") =>
                      log[m].cursor # log[n].cursor
               /\ (m = n - 1 /\ log[m].method = "GET" /\ log[n].method = "GET") =>
                      InProgressAnswered(m)

\* C21 witness: the poll of a second page was rejected with the error of a
\* non-2xx status after the first page had delivered rows, and the fault
\* execute threw is that error
C21_Witness ==
    \E n \in 1..Len(log) :
        /\ RejectedAnswered(n) /\ log[n].method = "GET"
        /\ Cardinality(Posts(log[n].item)) = 2
        /\ Len(Received(log[n].item, n)) > 0
        /\ pc = "thrown" /\ thrown = log[n].res.error /\ "httpCode" \in DOMAIN thrown

\* what the webhook receiver did with the request it was called for
Handled == hookResult # NoResult
Forwards == "workflowData" \in DOMAIN hookResult
StatusCode == hookResult.webhookResponse.statusCode
RespondsOk == hookResult.webhookResponse = [statusCode |-> 200, body |-> [status |-> "ok"]]

\* the header the node is configured with is not in the request, or its
\* value is not the webhook secret
HeaderMissingOrDiffers ==
    LET name == toLowerCase[hookCall.headerName]
    IN  name \notin DOMAIN hookCall.headers \/ hookCall.headers[name] # hookCall.webhookSecret

\* the request carries the configured header with the secret, which is set
HeaderCarriesSecret ==
    LET name == toLowerCase[hookCall.headerName]
    IN  /\ name \in DOMAIN hookCall.headers /\ hookCall.headers[name] = hookCall.webhookSecret
        /\ hookCall.webhookSecret # ""

\* the body is an object (of the language: an array is one, null is not)
BodyIsObject == hookCall.body.kind \in {"object", "array"}

\* C22: the webhook receiver forwards workflow data downstream if and only
\* if it responds 200 {status:"ok"}: with header authentication enabled a
\* request whose configured header is missing or differs from the webhook
\* secret gets 401 and forwards nothing, and a body that is not an object
\* forwards nothing and gets 400 (once the request is past the
\* authentication: it is off, or the header carries the secret).
C22_ForwardsIffOk ==
    Handled =>
        /\ Forwards <=> RespondsOk
        /\ (hookCall.authentication = "header" /\ HeaderMissingOrDiffers) =>
               StatusCode = 401 /\ ~Forwards
        /\ ~BodyIsObject =>
               /\ ~Forwards
               /\ StatusCode \in {400, 401}
               /\ (hookCall.authentication = "none" \/ HeaderCarriesSecret) => StatusCode = 400

\* C22 witness: header authentication is on and a well-formed alert came
\* with a wrong token in the configured header: 401, nothing forwarded
C22_Witness ==
    /\ Handled /\ hookCall.authentication = "header" /\ hookCall.webhookSecret = "s3cret"
    /\ toLowerCase[hookCall.headerName] \in DOMAIN hookCall.headers
    /\ hookCall.headers[toLowerCase[hookCall.headerName]] = "wrong"
    /\ hookCall.body.kind = "object" /\ "ruleName" \in DOMAIN hookCall.body.fields
    /\ StatusCode = 401 /\ ~Forwards

\* the alert object handed downstream
Forwarded == hookResult.workflowData[1][1].json

\* C23 as stated: on success the forwarded alert object contains ruleName,
\* severity and triggeredAt, and every field of the original payload is in
\* it with its original value (ruleName, severity and triggeredAt may be
\* given their default when the payload's value is empty): no field of the
\* accepted payload is dropped or overwritten.
C23_PayloadFieldsForwarded ==
    Forwards =>
        /\ {"ruleName", "severity", "triggeredAt"} \subseteq DOMAIN Forwarded
        /\ \A f \in DOMAIN hookCall.body.fields :
               /\ f \in DOMAIN Forwarded
               /\ \/ f \in {"ruleName", "severity", "triggeredAt"} /\ ~Truthy(hookCall.body.fields[f])
                  \/ Forwarded[f] = hookCall.body.fields[f]

\* the decimal digits of a natural number, as tokens
DigitChar == <<"0", "1", "2", "3", "4", "5", "6", "7", "8", "9">>
RECURSIVE Decimal(_)
Decimal(n) == IF n < 10 THEN <<DigitChar[n + 1]>> ELSE Decimal(n \div 10) \o <<DigitChar[(n % 10) + 1]>>

\* the digits of the LIMIT clause that starts at position p of q
ClauseValue(q, p) == SubSeq(q, RunEnd(q, p + 1, Whitespace) + 1, MatchEnd(q, p))

\* C24 as stated: for a specified limit within the allowed range the LIMIT
\* clause is applied to the submitted query (appended when the query has
\* none, replacing the existing one otherwise): every submitted query
\* contains the clause LIMIT <limit> with the specified value and no LIMIT
\* clause with another value.
C24_LimitClauseApplied ==
    \A n \in 1..Len(log) :
        (log[n].method = "POST" /\ InRange(params[log[n].item + 1].limit)) =>
            /\ HasLimitClause(log[n].query)
            /\ \A p \in 1..Len(log[n].query) : MatchesAt(log[n].query, p) =>
                   ClauseValue(log[n].query, p) = Decimal(CapOf(params[log[n].item + 1].limit))

\* the limit of item k was left empty
LimitEmpty(k) == params[k + 1].limit.t \in {"undefined", "null"}

\* C25 as stated: when the limit is left empty, any existing LIMIT clause is
\* removed from the submitted query and the node returns all results
\* available for the query, however many there are.
C25_NoLimitReturnsAll ==
    \A k \in Items : (LimitEmpty(k) /\ CredentialsPresent) =>
        /\ \A n \in Posts(k) : ~HasLimitClause(log[n].query)
        /\ \A n \in Outputs(k) : (IsResult(returnData[n]) /\ AllCompleted(k)) =>
               Len(returnData[n].json.results) = TotalRows(chain)

\* C26: the first submission of an invocation carries a null cursor, and
\* every later submission carries exactly the cursor returned by the
\* immediately preceding completed page of the same invocation: the request
\* right before it is the poll that delivered that page, its cursor is the
\* one submitted, it is not null or empty and no earlier submission of the
\* invocation carried it.
C26_CursorOfPrecedingPage ==
    \A n \in 1..Len(log) : log[n].method = "POST" =>
        IF n = FirstPost(log[n].item)
        THEN log[n].cursor = Null
        ELSE /\ log[n - 1].item = log[n].item /\ IsPage(n - 1)
             /\ log[n].cursor = log[n - 1].res.cursor
             /\ log[n].cursor \notin {Null, "", Undefined}
             /\ \A m \in Posts(log[n].item) : m < n => log[m].cursor # log[n].cursor

\* C26 witness: three submissions of one invocation; the third carries the
\* cursor of the second page, which is not the cursor of the first page
C26_Witness ==
    \E k \in Items : \E n \in Posts(k) :
        /\ Cardinality({m \in Posts(k) : m < n}) = 2
        /\ log[n].cursor = log[n - 1].res.cursor
        /\ \E m \in Gets(k) : m < n - 1 /\ IsPage(m) /\ log[m].res.cursor # log[n].cursor
                                /\ ~Falsy(log[m].res.cursor)

IsPrefix(a, b) == Len(a) <= Len(b) /\ SubSeq(b, 1, Len(a)) = a

\* C27: the accumulator grows monotonically: in every step of an invocation
\* the accumulated row sequence after the step has the sequence before the
\* step as a prefix, and it is the untrimmed concatenation of the pages
\* received so far; the trim to the cap happens only when the output is
\* emitted: the record emitted holds the first cap rows of the accumulated
\* rows followed by the rows of the last page.
C27_AccumulatorOnlyGrows ==
    [][Running(i) =>
        /\ results = Received(i, Len(log))
        /\ (i' = i /\ pc' \in {"awaitPost", "delay", "awaitGet"}) =>
               /\ IsPrefix(results, results')
               /\ returnData' = returnData
        /\ (Len(returnData') > Len(returnData) /\ IsResult(returnData'[Len(returnData')])) =>
               LET all == results \o RowsOf(log'[Len(log)].res)
               IN  returnData'[Len(returnData')].json.results
                       = SubSeq(all, 1, Min(limit.v2 \div 2, Len(all)))]_vars

\* C27 witness: two pages are in the accumulator and the third is asked for
C27_Witness ==
    /\ pc = "awaitPost" /\ page = 3
    /\ Len(results) = 2 /\ results = Received(i, Len(log))

\* polling started for submission n: execute is in the delay before the
\* first poll of its deferred URL, or that poll is the next request
PollingStarted(n) ==
    \/ n = Len(log) /\ pc = "delay" /\ i = log[n].item /\ deferredUrl = log[n].res.url
    \/ /\ n < Len(log) /\ log[n + 1].method = "GET"
       /\ log[n + 1].item = log[n].item /\ log[n + 1].url = log[n].res.url

\* C28 as stated: polling starts for a submission exactly when its response
\* carries no non-empty errors field and carries a deferred-result URL; in
\* particular a response whose errors field is present but empty and that
\* has a URL is a success.
C28_SuccessIffNoErrorsAndUrl ==
    \A n \in 1..Len(log) : (log[n].method = "POST" /\ log[n].res.kind = "post") =>
        (PollingStarted(n) <=>
            (log[n].res.errors # "nonempty" /\ log[n].res.url \notin {"", Undefined}))

\* the cap of a limit as a number of cycles: the limit when it is positive
\* (the next whole number when it is fractional), else MAX_CAP
CyclesCap(l) == IF l.t = "number" /\ l.v2 > 0 THEN (l.v2 + 1) \div 2 ELSE MAX_LIMIT

\* the submit/poll cycles of item k
Cycles(k) == Cardinality(Posts(k))

\* C29: the Pager performs at most cap submit/poll cycles for an item, hence
\* at most MAX_CAP cycles, whatever cursors and pages the server returns:
\* each cycle that is followed by another one added at least one row, and
\* another one follows only while the accumulated rows are fewer than the cap.
C29_AtMostCapCycles ==
    [][/\ \A k \in Items :
            /\ Cycles(k)' <= CyclesCap(params[k + 1].limit)
            /\ Cycles(k)' <= MAX_LIMIT
       /\ (Running(i) /\ Cycles(i)' > Cycles(i)) =>
            /\ Len(results') > Len(results)
            /\ LengthBelow(results', limit)]_vars

\* C29 witness: the server's cursors go round in a circle and every page has
\* a row: the item stopped after exactly cap cycles, one more than the
\* server has pages
C29_Witness ==
    \E k \in Items :
        /\ Succeeded(k)
        /\ Cycles(k) = Len(chain) + 1
        /\ Cycles(k) = CyclesCap(params[k + 1].limit)
        /\ \E n \in Posts(k) : log[n].cursor = CursorName[1]


\* the most polls the claim allows one poll loop
PollBound == QUERY_RESULTS_TIMEOUT \div pollInterval + 1

\* the number of polls sent for the job of poll n up to poll n: every request
\* after the job's submission up to n is a poll of that job
PollsUpTo(n) == n - SubmissionOf(n)

\* submission n was answered with a deferred URL and no errors field, so its
\* poll loop was entered
LoopEntered(n) ==
    /\ log[n].method = "POST" /\ log[n].res.kind = "post"
    /\ ~HasErrors(log[n].res)
    /\ ~Falsy(log[n].res.url)

\* poll n was answered and no poll of its job follows it
LoopEndedAt(n) ==
    /\ log[n].method = "GET" /\ log[n].res # Pending
    /\ n = Len(log) => ~(pc = "delay" /\ i = log[n].item)
    /\ n < Len(log) => ~(log[n + 1].method = "GET" /\ log[n + 1].item = log[n].item)

\* the ways a poll loop whose last poll is n has ended
OutcomesOf(n) ==
    LET k == log[n].item
    IN  {o \in {"rows returned", "query error", "timeout error", "transport error"} :
            \/ /\ o = "rows returned"
               /\ IsPage(n)
               /\ IF LastRequestOf(k, n)
                  THEN Succeeded(k) /\ \A m \in Outputs(k) : IsResult(returnData[m])
                  ELSE /\ log[n + 1].method = "POST" /\ log[n + 1].item = k
                       /\ log[n + 1].cursor = log[n].res.cursor
            \/ /\ o = "query error"
               /\ FailedAnswered(n) /\ LastRequestOf(k, n) /\ ~Succeeded(k)
               /\ FailedWith(k, [text |-> "JupiterOne returned error(s) for query",
                                 query |-> log[n].res.error])
            \/ /\ o = "timeout error"
               /\ InProgressAnswered(n) /\ LastRequestOf(k, n) /\ ~Succeeded(k)
               /\ FailedWith(k, TimeoutMessage)
            \/ /\ o = "transport error"
               /\ RejectedAnswered(n) /\ LastRequestOf(k, n) /\ ~Succeeded(k)
               /\ FailedWith(k, log[n].res.error.message)}

\* the poll in flight or last answered was sent after as many delays as the
\* job has polls, the timeout check before its delay had passed, and the job
\* has at most PollBound polls
PollsWithinBound ==
    (Len(log) > 0 /\ log[Len(log)].method = "GET") =>
        LET n == Len(log)
        IN  /\ PollsUpTo(n) >= 1
            /\ PollsUpTo(n) * pollInterval <= SinceAccepted(n, log[n].sent)
            /\ SinceAccepted(n, log[n].sent - pollInterval) <= QUERY_RESULTS_TIMEOUT
            /\ PollsUpTo(n) <= PollBound

\* every poll loop that was entered is in the delay before its first poll,
\* from which the poll is sent, or has sent that poll
PollsAtLeastOnce ==
    /\ \A n \in 1..Len(log) : LoopEntered(n) => PollingStarted(n)
    /\ pc = "delay" => ENABLED PollDelay

C31_OneEntryPerItem ==
    pc = "returned" =>
        /\ Len(returnData) = Len(params)
        /\ \A n \in 1..Len(returnData) :
               /\ returnData[n].pairedItem.item = n - 1
               /\ \/ IsResult(returnData[n])
                  \/ continueOnFail /\ IsFailure(returnData[n])


\* processing item k failed: its limit is above the maximum and it was taken
\* up, or one of its requests was answered with a failure
FailedItem(k) ==
    \/ /\ ExceedsMax(EffectiveLimit(params[k + 1].limit))
       /\ k < i \/ (k = i /\ pc # "loop")
    \/ \E n \in Requests(k) : FailureAnswered(n)

\* C32: without continue-on-failure a failure while item k is processed
\* aborts the whole execute call: execute throws the error instead of
\* returning, takes no further step, so that no request is ever issued for
\* an item after k, and the result records assembled for the items before k
\* are not returned to the caller (execute never reaches its return
\* statement); and execute returns only when no item failed.
C32_FailureAbortsExecute ==
    ~continueOnFail =>
        /\ \A k \in Items : FailedItem(k) =>
               /\ pc = "thrown" /\ i = k /\ thrown # NoError
               /\ \A n \in 1..Len(log) : log[n].item <= k
               /\ \A m \in 1..Len(returnData) :
                      IsResult(returnData[m]) /\ returnData[m].pairedItem.item < k
        /\ pc = "thrown" =>
               /\ FailedItem(i)
               /\ ~ENABLED Next
        /\ pc = "returned" => \A k \in Items : ~FailedItem(k)

\* C32 witness: of two items the first got its result record assembled, the
\* poll of the second was answered FAILED, and execute threw: the record of
\* the first item is left in returnData, which is never returned
C32_Witness ==
    /\ ~continueOnFail /\ Len(params) = 2
    /\ pc = "thrown" /\ i = 1
    /\ \E n \in Requests(1) : FailedAnswered(n)
    /\ Len(returnData) = 1 /\ IsResult(returnData[1])
    /\ Len(returnData[1].json.results) > 0
    /\ ~ENABLED Next

====
